---- MODULE Spec2Model ----
(***************************************************************************)
(* Model of the ingestion service in src/src/api: module start-up          *)
(* (config.py, app.py), the /submit handler (app.py submit) and the SSM    *)
(* secret lookup (deps.py get_token_from_ssm).                             *)
(*                                                                         *)
(* A request is handled by one of the slots in Requests.  The handler is   *)
(* not atomic: the host runs several workers/threads, so every step of     *)
(* submit is an action of its own and steps of different requests          *)
(* interleave.  External collaborators (the SSM parameter store and the    *)
(* SQS client) are modelled by their replies, drawn from small sets, and   *)
(* by a log of the calls made to them (what a test double would record).   *)
(***************************************************************************)
EXTENDS Integers, Sequences, FiniteSets, TLC

(***************************************************************************)
(* Bounds of the model.                                                    *)
(***************************************************************************)
\* how many times the stored secret is changed by its owner during a run
MaxRotations == 1

\* the request slots handled concurrently
Requests == {"r1", "r2"}

(***************************************************************************)
(* JSON values as Python sees them after request.get_json.  A value is a   *)
(* record of its Python type and its literal text, a sequence of one       *)
(* character strings (TLA+ strings cannot be taken apart).                 *)
(***************************************************************************)
None == [type |-> "null", lit |-> <<>>]

Str(s) == [type |-> "str", lit |-> s]

Num(digits) == [type |-> "int", lit |-> digits]

\* Python truth value of a JSON value, as used by "not token" (app.py:51)
Truthy(v) ==
    CASE v.type = "null" -> FALSE
      [] v.type = "str"  -> v.lit # <<>>
      [] v.type = "int"  -> v.lit # <<"0">>
      [] OTHER           -> TRUE

\* dict.get(key): the value of the first pair with that key, else None.
\* A dict is a sequence of <<key, value>> pairs with distinct keys, in
\* insertion order.
RECURSIVE Get(_, _)
Get(d, key) ==
    IF d = <<>> THEN None
    ELSE IF Head(d)[1] = key THEN Head(d)[2]
    ELSE Get(Tail(d), key)

Keys(d) == {d[i][1] : i \in DOMAIN d}

(***************************************************************************)
(* json.dumps(data) (app.py:74): one member per pair, in order, each the   *)
(* key and the JSON text of the value.  Strings are written in quotes,     *)
(* numbers as their digits, None as null.                                  *)
(***************************************************************************)
Quote == "\""

DumpValue(v) ==
    CASE v.type = "str"  -> <<Quote>> \o v.lit \o <<Quote>>
      [] v.type = "null" -> <<"n", "u", "l", "l">>
      [] OTHER           -> v.lit

JsonDumps(d) == [i \in DOMAIN d |-> [name |-> d[i][1], text |-> DumpValue(d[i][2])]]

(***************************************************************************)
(* datetime.fromisoformat(timestream) (app.py:67).  The argument must be a *)
(* str, else TypeError.  A str is accepted when it is                      *)
(*     YYYY-MM-DD [ sep HH[:MM[:SS[.fff[fff]]]] [ (+|-)HH:MM ] ]           *)
(* with sep any one character and every field in its range; anything else *)
(* is a ValueError.  (The forms only newer interpreters accept, such as a  *)
(* trailing Z, the basic format without dashes or a fraction of another    *)
(* length, are left out of the inputs.)                                    *)
(***************************************************************************)
Digits == {"0", "1", "2", "3", "4", "5", "6", "7", "8", "9"}

DigitValue(c) ==
    CASE c = "0" -> 0 [] c = "1" -> 1 [] c = "2" -> 2 [] c = "3" -> 3
      [] c = "4" -> 4 [] c = "5" -> 5 [] c = "6" -> 6 [] c = "7" -> 7
      [] c = "8" -> 8 [] c = "9" -> 9

AllDigits(s) == \A i \in DOMAIN s : s[i] \in Digits

RECURSIVE ToInt(_)
ToInt(s) ==
    IF s = <<>> THEN 0
    ELSE 10 * ToInt(SubSeq(s, 1, Len(s) - 1)) + DigitValue(s[Len(s)])

IsLeap(year) == year % 4 = 0 /\ (year % 100 # 0 \/ year % 400 = 0)

DaysInMonth(year, month) ==
    IF month = 2 THEN (IF IsLeap(year) THEN 29 ELSE 28)
    ELSE IF month \in {4, 6, 9, 11} THEN 30
    ELSE 31

\* the date part: ten characters YYYY-MM-DD
ValidDate(s) ==
    /\ Len(s) = 10
    /\ AllDigits(SubSeq(s, 1, 4)) /\ s[5] = "-"
    /\ AllDigits(SubSeq(s, 6, 7)) /\ s[8] = "-"
    /\ AllDigits(SubSeq(s, 9, 10))
    /\ LET year  == ToInt(SubSeq(s, 1, 4))
           month == ToInt(SubSeq(s, 6, 7))
           day   == ToInt(SubSeq(s, 9, 10))
       IN  /\ year >= 1
           /\ month >= 1 /\ month <= 12
           /\ day >= 1 /\ day <= DaysInMonth(year, month)

\* two digits below a limit, at position i of s
TwoDigits(s, i, limit) ==
    /\ Len(s) >= i + 1
    /\ AllDigits(SubSeq(s, i, i + 1))
    /\ ToInt(SubSeq(s, i, i + 1)) < limit

\* the clock part HH[:MM[:SS[.fff[fff]]]]
ValidClock(s) ==
    /\ Len(s) \in {2, 5, 8, 12, 15}
    /\ TwoDigits(s, 1, 24)
    /\ Len(s) >= 5 => (s[3] = ":" /\ TwoDigits(s, 4, 60))
    /\ Len(s) >= 8 => (s[6] = ":" /\ TwoDigits(s, 7, 60))
    /\ Len(s) >= 12 => (s[9] = "." /\ AllDigits(SubSeq(s, 10, Len(s))))

\* the offset (+|-)HH:MM
ValidOffset(s) ==
    /\ Len(s) = 6
    /\ s[1] \in {"+", "-"}
    /\ TwoDigits(s, 2, 24)
    /\ s[4] = ":"
    /\ TwoDigits(s, 5, 60)

\* the time part: a clock, then an offset when a sign occurs in it
ValidTime(s) ==
    LET signs == {i \in DOMAIN s : s[i] \in {"+", "-"}}
    IN  IF signs = {} THEN ValidClock(s)
        ELSE LET at == CHOOSE i \in signs : \A j \in signs : i <= j
             IN  /\ ValidClock(SubSeq(s, 1, at - 1))
                 /\ ValidOffset(SubSeq(s, at, Len(s)))

fromisoformat(v) ==
    IF v.type # "str" THEN "TypeError"
    ELSE IF Len(v.lit) < 10 \/ ~ValidDate(SubSeq(v.lit, 1, 10)) THEN "ValueError"
    ELSE IF Len(v.lit) = 10 THEN "datetime"
    ELSE IF Len(v.lit) >= 12 /\ ValidTime(SubSeq(v.lit, 12, Len(v.lit))) THEN "datetime"
    ELSE "ValueError"

(***************************************************************************)
(* Inputs: the strings, values and request bodies the requests are drawn   *)
(* from.                                                                   *)
(***************************************************************************)
\* the secret as first stored, and the same word in another case
Tok == <<"t", "o", "k">>

TokUpper == <<"T", "o", "k">>

TsGood == <<"2", "0", "2", "4", "-", "0", "6", "-", "0", "1", "T",
            "1", "2", ":", "0", "0", ":", "0", "0">>

TsBadMonth == <<"2", "0", "2", "4", "-", "1", "3", "-", "0", "1">>

TsGarbage == <<"n", "o", "t", "-", "a", "-", "t", "i", "m", "e", "s", "t", "a", "m", "p">>

Seven == Num(<<"7">>)

\* values a client may send as token: empty, right, wrong case, not a string
TokenValues == {Str(<<>>), Str(Tok), Str(TokUpper), Seven}

\* values a client may send as email_timestream
TimestreamValues == {Str(<<>>), Str(TsGood), Str(TsBadMonth), Str(TsGarbage), Seven}

\* a field is absent (no pair) or present with one of its values
Field(key, values) == {<<>>} \cup {<< <<key, v>> >> : v \in values}

\* the extra keys of a payload: none, or a subject and a count
ExtraFields == {<<>>, << <<"subject", Str(<<"h", "i">>)>>, <<"count", Seven>> >>}

\* JSON objects: every combination of the fields above
Objects ==
    {t \o e \o x : t \in Field("token", TokenValues),
                   e \in Field("email_timestream", TimestreamValues),
                   x \in ExtraFields}

\* the JSON array [7]
List == [type |-> "list", lit |-> <<"7">>]

\* the Content-Type header of a request
ContentTypes == {"application/json", "text/plain"}

\* the payload of the tests' successful request (test_app.py:72)
PlainObject == << <<"token", Str(Tok)>>, <<"email_timestream", Str(TsGood)>> >>

\* a request: its content type and its body, by what request.get_json makes
\* of the body: bytes that are not JSON, JSON that is not an object (null, a
\* number, a string, an array), or an object.  Bodies that are no object
\* come with either content type; objects come as application/json, and
\* one of them as text/plain too.
Bodies ==
    {[kind |-> "invalid", value |-> None, pairs |-> <<>>, contentType |-> c] :
        c \in ContentTypes}
    \cup {[kind |-> "scalar", value |-> v, pairs |-> <<>>, contentType |-> c] :
             v \in {None, Seven, Str(Tok), List}, c \in ContentTypes}
    \cup {[kind |-> "dict", value |-> None, pairs |-> d, contentType |-> "application/json"] :
             d \in Objects}
    \cup {[kind |-> "dict", value |-> None, pairs |-> PlainObject, contentType |-> "text/plain"]}

(***************************************************************************)
(* Configuration (config.py:54-67) and responses.                          *)
(***************************************************************************)
RequiredEnv == {"AWS_DEFAULT_REGION", "SQS_QUEUE_URL", "TOKEN_SSM_PARAM"}

\* a configuration that falls back to a default for TOKEN_SSM_PARAM
ConfigWithDefault(env) == {"AWS_DEFAULT_REGION", "SQS_QUEUE_URL"} \subseteq env

\* os.environ[...] finds all three names (no KeyError)
ConfigComplete(env) == RequiredEnv \subseteq env

Resp(status, key, text) == [status |-> status, key |-> key, text |-> text]

\* no response yet
NoResp == Resp(0, "", "")

\* no health_check call yet
NoHealth ==
    [status |-> 0, body |-> [status |-> "", service |-> "", endpoints |-> <<>>]]

(***************************************************************************)
(* The SSM parameter store and get_token_from_ssm (deps.py:7-20).  The     *)
(* store either holds no such parameter or holds a value; the call may     *)
(* also fail on its own (fault).  The reply is the value returned or the   *)
(* exception raised.                                                       *)
(***************************************************************************)
NoParameter == [exists |-> FALSE, value |-> None]

Stored(v) == [exists |-> TRUE, value |-> v]

\* the secrets the owner of the store may set
Secrets == {Str(Tok), Str(TokUpper)}

\* a lookup that keeps the secret it read when the process started
get_token_cached(store, fault) == [exc |-> "", value |-> Str(Tok)]

get_token_from_ssm(store, fault) ==
    IF fault THEN [exc |-> "ClientError", value |-> None]
    ELSE IF ~store.exists THEN [exc |-> "ParameterNotFound", value |-> None]
    ELSE IF store.value.type # "str" THEN [exc |-> "ValueError", value |-> None]
    ELSE [exc |-> "", value |-> store.value]

(***************************************************************************)
(* sqs.send_message (app.py:74): its replies.  A reply is a dict with or   *)
(* without a MessageId, or an exception with its message.                  *)
(***************************************************************************)
SendReplies ==
    {[exc |-> "", hasId |-> TRUE, MessageId |-> "123"],
     [exc |-> "", hasId |-> FALSE, MessageId |-> ""],
     [exc |-> "SQS error", hasId |-> FALSE, MessageId |-> ""],
     [exc |-> "Could not connect to the endpoint URL", hasId |-> FALSE, MessageId |-> ""]}

\* response.get("MessageId", "unknown") (app.py:75); the id is logged only
MessageIdOf(reply) == IF reply.hasId THEN reply.MessageId ELSE "unknown"

(***************************************************************************)
(* State.                                                                  *)
(***************************************************************************)
VARIABLES
    environ,        \* the names set in os.environ when the process starts
    phase,          \* where the process is: "import", "client", "factory", "serving", "exited"
    exit,           \* <<>> while running, <<code>> once SystemExit(code) was raised
    ssmParam,       \* the parameter store's entry for TOKEN_SSM_PARAM
    rotations,      \* how often the stored secret was changed
    pc,             \* per request: the step of submit it is at
    body,           \* per request: the request body
    data,           \* per request: submit's local data (the parsed dict)
    token,          \* per request: submit's local token
    timestream,     \* per request: submit's local timestream
    expected_token, \* per request: submit's local expected_token
    response,       \* per request: the (body, status) submit returned
    raised,         \* per request: the exception that left submit, "" if none
    ssmLog,         \* per request: the replies of its get_token_from_ssm calls
    sqsLog,         \* per request: its send_message calls, argument and reply
    healthReply     \* what health_check returned last, NoHealth before its first call

vars == <<environ, phase, exit, ssmParam, rotations, pc, body, data, token,
          timestream, expected_token, response, raised, ssmLog, sqsLog, healthReply>>

procVars == <<environ, phase, exit>>

storeVars == <<ssmParam, rotations>>

Init ==
    /\ environ \in SUBSET RequiredEnv
    /\ phase = "import"
    /\ exit = <<>>
    /\ ssmParam \in {Stored(Str(Tok)), Stored(Seven), NoParameter}
    /\ rotations = 0
    /\ pc = [r \in Requests |-> "idle"]
    /\ body = [r \in Requests |->
                 [kind |-> "invalid", value |-> None, pairs |-> <<>>, contentType |-> ""]]
    /\ data = [r \in Requests |-> <<>>]
    /\ token = [r \in Requests |-> None]
    /\ timestream = [r \in Requests |-> None]
    /\ expected_token = [r \in Requests |-> None]
    /\ response = [r \in Requests |-> NoResp]
    /\ raised = [r \in Requests |-> ""]
    /\ ssmLog = [r \in Requests |-> <<>>]
    /\ sqsLog = [r \in Requests |-> <<>>]
    /\ healthReply = NoHealth

reqVars == <<pc, body, data, token, timestream, expected_token, response,
             raised, ssmLog, sqsLog>>

(***************************************************************************)
(* Start-up: importing api.config, creating the SQS client, create_app.    *)
(***************************************************************************)
\* config.py:56-67: read the three names, SystemExit(1) on a KeyError
ImportConfig ==
    /\ phase = "import"
    /\ \/ /\ ConfigComplete(environ)
          /\ phase' = "client"
          /\ exit' = exit
       \/ /\ ~ConfigComplete(environ)
          /\ phase' = "exited"
          /\ exit' = <<1>>
    /\ UNCHANGED <<environ, storeVars, reqVars, healthReply>>

\* app.py:14-20: boto3.client("sqs"), SystemExit(1) when it cannot be made
InitSqsClient ==
    /\ phase = "client"
    /\ \/ /\ phase' = "factory"
          /\ exit' = exit
       \/ /\ phase' = "exited"
          /\ exit' = <<1>>
    /\ UNCHANGED <<environ, storeVars, reqVars, healthReply>>

\* app.py:86: app = create_app(); the routes exist from here on
create_app ==
    /\ phase = "factory"
    /\ phase' = "serving"
    /\ UNCHANGED <<environ, exit, storeVars, reqVars, healthReply>>

(***************************************************************************)
(* The owner of the parameter store changes the secret.                    *)
(***************************************************************************)
RotateSecret ==
    /\ rotations < MaxRotations
    /\ \E v \in Secrets \ {ssmParam.value} : ssmParam' = Stored(v)
    /\ rotations' = rotations + 1
    /\ UNCHANGED <<healthReply, procVars, reqVars>>

(***************************************************************************)
(* health_check (app.py:27-35): GET / of a serving process.                *)
(***************************************************************************)
\* a health check that probes the parameter store and reports what it finds
HealthReplyProbing ==
    [status |-> IF ssmParam.exists THEN 200 ELSE 503,
     body |-> [status |-> IF ssmParam.exists THEN "healthy" ELSE "unhealthy",
               service |-> "checkpoint-home-assignment-api-ms",
               endpoints |-> <<"/submit">>]]

\* health_check's reply (app.py:31-35)
HealthReply ==
    [status |-> 200,
     body |-> [status |-> "healthy",
               service |-> "checkpoint-home-assignment-api-ms",
               endpoints |-> <<"/submit">>]]

health_check ==
    /\ phase = "serving"
    /\ healthReply' = HealthReply
    /\ UNCHANGED <<procVars, storeVars, reqVars>>

(***************************************************************************)
(* submit (app.py:37-80), one action per step.                             *)
(***************************************************************************)
\* an order in which the timestamp is validated before the token is compared
StepAfterValidateFirst(step) ==
    CASE step = "parse"    -> "presence"
      [] step = "presence" -> "lookup"
      [] step = "lookup"   -> "validate"
      [] step = "validate" -> "compare"
      [] step = "compare"  -> "enqueue"

\* app.py:41-80: the step submit goes on to when a step passed: parse,
\* presence check, lookup, comparison, timestamp validation, enqueue
StepAfter(step) ==
    CASE step = "parse"    -> "presence"
      [] step = "presence" -> "lookup"
      [] step = "lookup"   -> "compare"
      [] step = "compare"  -> "validate"
      [] step = "validate" -> "enqueue"

\* return (body, status): the request is over
Return(r, resp) ==
    /\ response' = [response EXCEPT ![r] = resp]
    /\ pc' = [pc EXCEPT ![r] = "done"]

\* a request arrives at POST /submit of a serving process
Receive(r) ==
    /\ phase = "serving"
    /\ pc[r] = "idle"
    /\ \E b \in Bodies : body' = [body EXCEPT ![r] = b]
    /\ pc' = [pc EXCEPT ![r] = "parse"]
    /\ UNCHANGED <<healthReply, procVars, storeVars, data, token, timestream, expected_token,
                   response, raised, ssmLog, sqsLog>>

\* app.py:42: get_json(force=True)
Force == TRUE

\* a parse without the data.keys() call: only get_json can raise
ParseErrorOfGetJson(b) ==
    IF ~Force /\ b.contentType # "application/json" THEN "UnsupportedMediaType"
    ELSE IF b.kind = "invalid" THEN "BadRequest"
    ELSE ""

\* app.py:42-43: get_json looks at the content type only without force and
\* raises on bytes that are not JSON, and data.keys() raises on a value that
\* is not a dict; "" when nothing raises
ParseError(b) ==
    IF ~Force /\ b.contentType # "application/json" THEN "UnsupportedMediaType"
    ELSE IF b.kind = "invalid" THEN "BadRequest"
    ELSE IF b.kind # "dict" THEN "AttributeError"
    ELSE ""

\* app.py:41-46
Parse(r) ==
    /\ pc[r] = "parse"
    /\ \/ /\ ParseError(body[r]) = ""
          /\ data' = [data EXCEPT ![r] = body[r].pairs]
          /\ pc' = [pc EXCEPT ![r] = StepAfter("parse")]
          /\ response' = response
       \/ /\ ParseError(body[r]) # ""
          /\ Return(r, Resp(400, "error", "Invalid JSON payload"))
          /\ data' = data
    /\ UNCHANGED <<healthReply, procVars, storeVars, body, token, timestream, expected_token,
                   raised, ssmLog, sqsLog>>

\* a check that rejects only when both are missing
MissingBoth(tok, ts) == ~Truthy(tok) /\ ~Truthy(ts)

\* app.py:51: not token or not timestream
Missing(tok, ts) == ~Truthy(tok) \/ ~Truthy(ts)

\* app.py:48-53
CheckPresence(r) ==
    LET tok == Get(data[r], "token")
        ts  == Get(data[r], "email_timestream")
    IN  /\ pc[r] = "presence"
        /\ token' = [token EXCEPT ![r] = tok]
        /\ timestream' = [timestream EXCEPT ![r] = ts]
        /\ \/ /\ Missing(tok, ts)
              /\ Return(r, Resp(400, "error", "Missing token or email_timestream"))
           \/ /\ ~Missing(tok, ts)
              /\ pc' = [pc EXCEPT ![r] = StepAfter("presence")]
              /\ response' = response
        /\ UNCHANGED <<healthReply, procVars, storeVars, body, data, expected_token, raised,
                       ssmLog, sqsLog>>

\* a failed lookup reported as a bad token
LookupFailureAsForbidden(reply) == Resp(403, "error", "Invalid token")

\* app.py:60: the response to a failed lookup
LookupFailure(reply) == Resp(500, "error", "Internal server error")

\* app.py:55-60
Lookup(r) ==
    /\ pc[r] = "lookup"
    /\ \E fault \in BOOLEAN :
         LET reply == get_token_from_ssm(ssmParam, fault)
         IN  /\ ssmLog' = [ssmLog EXCEPT ![r] = Append(@, reply)]
             /\ \/ /\ reply.exc = ""
                   /\ expected_token' = [expected_token EXCEPT ![r] = reply.value]
                   /\ pc' = [pc EXCEPT ![r] = StepAfter("lookup")]
                   /\ response' = response
                \/ /\ reply.exc # ""
                   /\ Return(r, LookupFailure(reply))
                   /\ expected_token' = expected_token
    /\ UNCHANGED <<healthReply, procVars, storeVars, body, data, token, timestream, raised, sqsLog>>

LowerChar(c) == IF c = "T" THEN "t" ELSE c

Lower(s) == [i \in DOMAIN s |-> LowerChar(s[i])]

\* a comparison that ignores case
NotEqualIgnoringCase(a, b) == a.type # b.type \/ Lower(a.lit) # Lower(b.lit)

\* app.py:62: token != expected_token, Python's != on a JSON value and a str
NotEqual(a, b) == a.type # b.type \/ a.lit # b.lit

\* an expected token kept in one place for all requests: r reads what the
\* other request stored
ExpectedTokenShared(r) == expected_token[CHOOSE q \in Requests : q # r]

\* app.py:62: the expected token the comparison of request r reads
ExpectedToken(r) == expected_token[r]

\* app.py:62-64
Compare(r) ==
    /\ pc[r] = "compare"
    /\ \/ /\ NotEqual(token[r], ExpectedToken(r))
          /\ Return(r, Resp(403, "error", "Invalid token"))
       \/ /\ ~NotEqual(token[r], ExpectedToken(r))
          /\ pc' = [pc EXCEPT ![r] = StepAfter("compare")]
          /\ response' = response
    /\ UNCHANGED <<healthReply, procVars, storeVars, body, data, token, timestream, expected_token,
                   raised, ssmLog, sqsLog>>

\* app.py:66-71: only ValueError is caught; a TypeError leaves submit
ValidateTimestream(r) ==
    LET result == fromisoformat(timestream[r])
    IN  /\ pc[r] = "validate"
        /\ \/ /\ result = "datetime"
              /\ pc' = [pc EXCEPT ![r] = StepAfter("validate")]
              /\ UNCHANGED <<response, raised>>
           \/ /\ result = "ValueError"
              /\ Return(r, Resp(400, "error", "Invalid timestream format"))
              /\ raised' = raised
           \/ /\ result \notin {"datetime", "ValueError"}
              /\ raised' = [raised EXCEPT ![r] = result]
              /\ pc' = [pc EXCEPT ![r] = "done"]
              /\ response' = response
        /\ UNCHANGED <<healthReply, procVars, storeVars, body, data, token, timestream,
                       expected_token, ssmLog, sqsLog>>

\* a body that carries the two known keys only
MessageBodyKnownKeys(d) ==
    JsonDumps(SelectSeq(d, LAMBDA kv : kv[1] \in {"token", "email_timestream"}))

\* app.py:74: MessageBody=json.dumps(data)
MessageBody(d) == JsonDumps(d)

\* a response that carries the exception's message
SendFailureWithDetail(reply) == Resp(500, "error", reply.exc)

\* app.py:78-80: the response when send_message raised
SendFailure(reply) == Resp(500, "error", "Failed to queue message")

\* a failed send is tried again
AfterSendFailureRetry == "enqueue"

\* app.py:80: return; the step a request is at after a failed send
AfterSendFailure == "done"

\* app.py:73-80
Send(r) ==
    /\ pc[r] = "enqueue"
    /\ \E reply \in SendReplies :
         /\ sqsLog' = [sqsLog EXCEPT ![r] =
                Append(@, [QueueUrl |-> "SQS_QUEUE_URL",
                           MessageBody |-> MessageBody(data[r]),
                           reply |-> reply])]
         /\ \/ /\ reply.exc = ""
               /\ Return(r, Resp(200, "message", "Payload accepted and queued."))
            \/ /\ reply.exc # ""
               /\ response' = [response EXCEPT ![r] = SendFailure(reply)]
               /\ pc' = [pc EXCEPT ![r] = AfterSendFailure]
    /\ UNCHANGED <<healthReply, procVars, storeVars, body, data, token, timestream, expected_token,
                   raised, ssmLog>>

Next ==
    \/ ImportConfig
    \/ InitSqsClient
    \/ create_app
    \/ RotateSecret
    \/ health_check
    \/ \E r \in Requests :
         \/ Receive(r)
         \/ Parse(r)
         \/ CheckPresence(r)
         \/ Lookup(r)
         \/ Compare(r)
         \/ ValidateTimestream(r)
         \/ Send(r)

Spec == Init /\ [][Next]_vars

(***************************************************************************)
(* Vocabulary of the properties.                                           *)
(***************************************************************************)
Done(r) == pc[r] = "done"

\* the request's body was a JSON object: it has a parsed payload
HasPayload(r) == pc[r] # "idle" /\ body[r].kind = "dict"

Payload(r) == body[r].pairs

\* key is absent from the payload, or its value is empty (null, "")
AbsentOrEmpty(d, key) == key \notin Keys(d) \/ Get(d, key).lit = <<>>

\* the lookup of request r was made and returned a secret
LookedUp(r) == ssmLog[r] # <<>> /\ ssmLog[r][1].exc = ""

\* the secret the lookup of request r returned
SecretOf(r) == ssmLog[r][1].value

\* reading a JSON text back: the inverse of DumpValue
LoadValue(text) ==
    IF text # <<>> /\ text[1] = Quote THEN Str(SubSeq(text, 2, Len(text) - 1))
    ELSE IF text = <<"n", "u", "l", "l">> THEN None
    ELSE Num(text)

\* reading a message body back: the pairs it holds, in order
JsonLoads(members) == [i \in DOMAIN members |-> <<members[i].name, LoadValue(members[i].text)>>]

Accepted == Resp(200, "message", "Payload accepted and queued.")

InvalidJson == Resp(400, "error", "Invalid JSON payload")

MissingField == Resp(400, "error", "Missing token or email_timestream")

InvalidToken == Resp(403, "error", "Invalid token")

InvalidTimestream == Resp(400, "error", "Invalid timestream format")

InternalError == Resp(500, "error", "Internal server error")

QueueFailure == Resp(500, "error", "Failed to queue message")

(***************************************************************************)
(* C1: a payload whose token equals the secret the lookup returned and     *)
(* whose email_timestream the ISO parser accepts is handed to the queue    *)
(* exactly once, the message body reading back as the whole payload (every *)
(* key with its value, extras included, nothing else); and when that call  *)
(* succeeds, with or without a MessageId, the response is 200 "Payload     *)
(* accepted and queued.".                                                  *)
(***************************************************************************)
C1_AcceptedAndForwarded ==
    \A r \in Requests :
        ( /\ Done(r) /\ HasPayload(r) /\ LookedUp(r)
          /\ Get(Payload(r), "token") = SecretOf(r)
          /\ fromisoformat(Get(Payload(r), "email_timestream")) = "datetime" )
        => /\ Len(sqsLog[r]) = 1
           /\ JsonLoads(sqsLog[r][1].MessageBody) = Payload(r)
           /\ sqsLog[r][1].reply.exc = "" => response[r] = Accepted

\* a payload with extra keys was accepted on a reply that has no MessageId
C1_Witness ==
    \E r \in Requests :
        /\ Done(r) /\ response[r] = Accepted
        /\ "subject" \in Keys(Payload(r))
        /\ ~sqsLog[r][1].reply.hasId

(***************************************************************************)
(* C2 as stated: every payload whose token matches no configured secret    *)
(* is answered 403 "Invalid token", whatever else the payload holds.       *)
(***************************************************************************)
C2_Original ==
    \A r \in Requests :
        ( /\ Done(r) /\ HasPayload(r)
          /\ \A s \in Secrets : Get(Payload(r), "token") # s )
        => response[r] = InvalidToken

(***************************************************************************)
(* C2 amended: a payload with a non-empty token and a non-empty            *)
(* email_timestream, whose lookup returned a secret that the token does    *)
(* not equal exactly (case matters), is answered 403 "Invalid token" and   *)
(* nothing is enqueued, whether or not email_timestream is a timestamp.    *)
(***************************************************************************)
C2_InvalidToken ==
    \A r \in Requests :
        ( /\ Done(r) /\ HasPayload(r)
          /\ ~AbsentOrEmpty(Payload(r), "token")
          /\ ~AbsentOrEmpty(Payload(r), "email_timestream")
          /\ LookedUp(r)
          /\ Get(Payload(r), "token") # SecretOf(r) )
        => response[r] = InvalidToken /\ sqsLog[r] = <<>>

\* a token differing from the secret only in case, with a bad timestamp, got 403
C2_Witness ==
    \E r \in Requests :
        /\ Done(r) /\ response[r] = InvalidToken
        /\ Get(Payload(r), "token") = Str(TokUpper)
        /\ SecretOf(r) = Str(Tok)
        /\ Get(Payload(r), "email_timestream") = Str(TsGarbage)

(***************************************************************************)
(* C3: a payload in which token or email_timestream is absent or empty is  *)
(* answered 400 "Missing token or email_timestream", whatever its other    *)
(* keys, and neither the lookup nor the enqueue is called for it.          *)
(***************************************************************************)
C3_MissingField ==
    \A r \in Requests :
        ( /\ HasPayload(r)
          /\ \/ AbsentOrEmpty(Payload(r), "token")
             \/ AbsentOrEmpty(Payload(r), "email_timestream") )
        => /\ ssmLog[r] = <<>>
           /\ sqsLog[r] = <<>>
           /\ pc[r] \in {"parse", "presence", "done"}
           /\ Done(r) => response[r] = MissingField

\* the right token, extra keys, no email_timestream: 400
C3_Witness ==
    \E r \in Requests :
        /\ Done(r) /\ response[r] = MissingField
        /\ Get(Payload(r), "token") = Str(Tok)
        /\ "email_timestream" \notin Keys(Payload(r))
        /\ "subject" \in Keys(Payload(r))

(***************************************************************************)
(* C4: a request whose token equalled the looked-up secret and whose       *)
(* non-empty email_timestream the ISO parser does not accept is answered   *)
(* 400 "Invalid timestream format", and enqueue is not called.             *)
(***************************************************************************)
C4_InvalidTimestream ==
    \A r \in Requests :
        ( /\ Done(r) /\ HasPayload(r) /\ LookedUp(r)
          /\ Get(Payload(r), "token") = SecretOf(r)
          /\ ~AbsentOrEmpty(Payload(r), "email_timestream")
          /\ fromisoformat(Get(Payload(r), "email_timestream")) # "datetime" )
        => response[r] = InvalidTimestream /\ sqsLog[r] = <<>>

(***************************************************************************)
(* C5: a lookup that fails (the call raises, the parameter is not found,   *)
(* the stored value is not a string) ends the request with 500 "Internal   *)
(* server error"; enqueue is never called for it and it is never answered  *)
(* 403.                                                                    *)
(***************************************************************************)
C5_LookupFailure ==
    \A r \in Requests :
        (ssmLog[r] # <<>> /\ ssmLog[r][1].exc # "")
        => /\ Done(r)
           /\ response[r] = InternalError
           /\ response[r] # InvalidToken
           /\ sqsLog[r] = <<>>

\* one request met a stored value that is no string, another a failing call
C5_Witness ==
    \E r, q \in Requests :
        /\ Done(r) /\ ssmLog[r] # <<>> /\ ssmLog[r][1].exc = "ValueError"
        /\ Done(q) /\ ssmLog[q] # <<>> /\ ssmLog[q][1].exc = "ClientError"

DefinedOutcomes ==
    {Accepted, InvalidJson, MissingField, InvalidToken, InvalidTimestream,
     InternalError, QueueFailure}

C7_NoEscape ==
    \A r \in Requests :
        Done(r) => raised[r] = "" /\ response[r] \in DefinedOutcomes

(***************************************************************************)
(* C8: requests are independent.  Whatever the interleaving with other     *)
(* requests and with changes of the stored secret, a finished request's    *)
(* outcome, the calls it made and the message it handed to the queue are   *)
(* those of the same request run alone on the same body with the same      *)
(* lookup and send replies.                                                *)
(***************************************************************************)
\* submit run start to end on body b, with the replies its calls get
Outcome(resp, exc, nLookups, nSends, b) ==
    [response |-> resp, raised |-> exc, lookups |-> nLookups,
     bodies |-> [i \in 1..nSends |-> JsonDumps(b.pairs)]]

RunAlone(b, lookupReplies, sendReplies) ==
    LET tok == Get(b.pairs, "token")
        ts  == Get(b.pairs, "email_timestream")
    IN  IF b.kind # "dict" THEN Outcome(InvalidJson, "", 0, 0, b)
        ELSE IF ~Truthy(tok) \/ ~Truthy(ts) THEN Outcome(MissingField, "", 0, 0, b)
        ELSE IF lookupReplies = <<>> THEN Outcome(NoResp, "no reply", 0, 0, b)
        ELSE IF lookupReplies[1].exc # "" THEN Outcome(InternalError, "", 1, 0, b)
        ELSE IF tok # lookupReplies[1].value THEN Outcome(InvalidToken, "", 1, 0, b)
        ELSE IF fromisoformat(ts) = "TypeError" THEN Outcome(NoResp, "TypeError", 1, 0, b)
        ELSE IF fromisoformat(ts) = "ValueError" THEN Outcome(InvalidTimestream, "", 1, 0, b)
        ELSE IF sendReplies = <<>> THEN Outcome(NoResp, "no reply", 1, 0, b)
        ELSE IF sendReplies[1].exc # "" THEN Outcome(QueueFailure, "", 1, 1, b)
        ELSE Outcome(Accepted, "", 1, 1, b)

C8_Independent ==
    \A r \in Requests :
        Done(r) =>
            LET alone == RunAlone(body[r], ssmLog[r],
                                  [i \in DOMAIN sqsLog[r] |-> sqsLog[r][i].reply])
            IN  /\ response[r] = alone.response
                /\ raised[r] = alone.raised
                /\ Len(ssmLog[r]) = alone.lookups
                /\ [i \in DOMAIN sqsLog[r] |-> sqsLog[r][i].MessageBody] = alone.bodies

\* one request was accepted while another, still in flight, holds a different
\* secret from its own lookup
C8_Witness ==
    \E r, q \in Requests :
        /\ r # q
        /\ Done(r) /\ response[r] = Accepted
        /\ pc[q] = "compare"
        /\ expected_token[q] # SecretOf(r)
        /\ token[q] = token[r]

(***************************************************************************)
(* C9: no retries.  A request calls the lookup at most once and            *)
(* send_message at most once, and a failure of either call ends the        *)
(* request at once with a 500 response.                                    *)
(***************************************************************************)
C9_NoRetries ==
    \A r \in Requests :
        /\ Len(ssmLog[r]) <= 1
        /\ Len(sqsLog[r]) <= 1
        /\ (ssmLog[r] # <<>> /\ ssmLog[r][1].exc # "")
              => Done(r) /\ response[r].status = 500 /\ sqsLog[r] = <<>>
        /\ (sqsLog[r] # <<>> /\ sqsLog[r][1].reply.exc # "")
              => Done(r) /\ response[r].status = 500

\* a request ended on a failed send after exactly one lookup and one send
C9_Witness ==
    \E r \in Requests :
        /\ Done(r)
        /\ Len(ssmLog[r]) = 1 /\ Len(sqsLog[r]) = 1
        /\ sqsLog[r][1].reply.exc # ""
        /\ response[r].status = 500

Healthy ==
    [status |-> 200,
     body |-> [status |-> "healthy",
               service |-> "checkpoint-home-assignment-api-ms",
               endpoints |-> <<"/submit">>]]

C11_Health ==
    /\ [](healthReply \in {NoHealth, Healthy})
    /\ [][healthReply' # healthReply
            => /\ healthReply' = Healthy
               /\ UNCHANGED <<ssmLog, sqsLog, ssmParam, pc, response, raised>>]_vars

\* health_check answered after one request met a failed lookup and another
\* a failed send
C11_Witness ==
    /\ healthReply = Healthy
    /\ \E r, q \in Requests :
          /\ Done(r) /\ response[r] = InternalError
          /\ Done(q) /\ response[q] = QueueFailure

(***************************************************************************)
(* C12: when send_message raises for a request that passed every           *)
(* validation, the response is 500 and its error string contains the       *)
(* message of the exception.                                               *)
(***************************************************************************)
\* the messages send_message's exceptions carry
ExceptionMessages == {reply.exc : reply \in {x \in SendReplies : x.exc # ""}}

\* text contains part.  Response texts are whole strings here; none of
\* submit's fixed texts has an exception message inside it, so a text
\* contains such a message only by being it.
Contains(text, part) == text = part

C12_ErrorCarriesException ==
    \A r \in Requests :
        (Done(r) /\ sqsLog[r] # <<>> /\ sqsLog[r][1].reply.exc \in ExceptionMessages)
        => /\ response[r].status = 500
           /\ response[r].key = "error"
           /\ Contains(response[r].text, sqsLog[r][1].reply.exc)

(***************************************************************************)
(* C13: a process with no queue URL configured answers a submit request    *)
(* that has the right token and a valid timestamp with 500                 *)
(* "SQS_QUEUE_URL not configured": it is up to answer once its start-up    *)
(* ran, and that is the response of every such request.                    *)
(***************************************************************************)
NotConfigured == Resp(500, "error", "SQS_QUEUE_URL not configured")

C13_QueueUrlNotConfigured ==
    ("SQS_QUEUE_URL" \notin environ /\ phase # "import")
    => /\ phase # "exited"
       /\ \A r \in Requests :
            ( /\ Done(r) /\ HasPayload(r) /\ LookedUp(r)
              /\ Get(Payload(r), "token") = SecretOf(r)
              /\ fromisoformat(Get(Payload(r), "email_timestream")) = "datetime" )
            => response[r] = NotConfigured

(***************************************************************************)
(* C14: the steps of submit run in the order parse, presence check,        *)
(* lookup, comparison, timestamp validation, enqueue, and the first step   *)
(* that fails ends the request.  A request is past a step only if every    *)
(* earlier step passed; the lookup is called only for a parsed payload     *)
(* with both fields present; enqueue is called only when the token         *)
(* equalled the looked-up secret and the timestamp parsed; a payload with  *)
(* a wrong token and an invalid timestamp gets 403; and nothing is         *)
(* enqueued for a request whose token differs from the secret.             *)
(***************************************************************************)
PresencePassed(r) ==
    /\ HasPayload(r)
    /\ Truthy(Get(Payload(r), "token"))
    /\ Truthy(Get(Payload(r), "email_timestream"))

TokenPassed(r) == PresencePassed(r) /\ LookedUp(r) /\ Get(Payload(r), "token") = SecretOf(r)

TimestampPassed(r) ==
    TokenPassed(r) /\ fromisoformat(Get(Payload(r), "email_timestream")) = "datetime"

C14_StrictOrder ==
    \A r \in Requests :
        /\ pc[r] = "presence" => HasPayload(r)
        /\ pc[r] = "lookup" => PresencePassed(r) /\ ssmLog[r] = <<>>
        /\ pc[r] = "compare" => PresencePassed(r) /\ LookedUp(r)
        /\ pc[r] = "validate" => TokenPassed(r)
        /\ pc[r] = "enqueue" => TimestampPassed(r)
        /\ ssmLog[r] # <<>> => PresencePassed(r)
        /\ sqsLog[r] # <<>> => TimestampPassed(r)
        /\ ( /\ Done(r) /\ PresencePassed(r) /\ LookedUp(r)
             /\ Get(Payload(r), "token") # SecretOf(r) )
           => response[r] = InvalidToken /\ sqsLog[r] = <<>>

\* a token that is no string with a timestamp of month 13: one lookup, 403,
\* nothing enqueued
C14_Witness ==
    \E r \in Requests :
        /\ Done(r) /\ response[r] = InvalidToken
        /\ Get(Payload(r), "token") = Seven
        /\ Get(Payload(r), "email_timestream") = Str(TsBadMonth)
        /\ Len(ssmLog[r]) = 1 /\ sqsLog[r] = <<>>

(***************************************************************************)
(* C15: a request whose body is not JSON, or is JSON but no object (null,  *)
(* a number, a string, an array), is answered 400 "Invalid JSON payload"   *)
(* whatever its content type, without a lookup or a send.                  *)
(***************************************************************************)
C15_InvalidJson ==
    \A r \in Requests :
        (pc[r] # "idle" /\ body[r].kind # "dict")
        => /\ pc[r] \in {"parse", "done"}
           /\ ssmLog[r] = <<>>
           /\ sqsLog[r] = <<>>
           /\ Done(r) => response[r] = InvalidJson /\ raised[r] = ""

\* bytes that are no JSON sent as text/plain and an array sent as
\* application/json both got 400
C15_Witness ==
    \E r, q \in Requests :
        /\ Done(r) /\ body[r].kind = "invalid" /\ body[r].contentType = "text/plain"
        /\ Done(q) /\ body[q].kind = "scalar" /\ body[q].value = List
        /\ body[q].contentType = "application/json"
        /\ response[r] = InvalidJson /\ response[q] = InvalidJson

(***************************************************************************)
(* C16: the secret is fetched fresh for every request.  A request that     *)
(* passed the presence check makes its own lookup; the value it compares   *)
(* the token with is the value the store holds at that lookup, not one     *)
(* kept from an earlier request; and the comparison step answers 403 when  *)
(* the token differs from that value and lets the request on when it is    *)
(* equal.  So after the stored secret changed, a request that looks it up  *)
(* with the old secret gets 403 and one with the new secret passes.        *)
(***************************************************************************)
C16_FreshSecret ==
    [][\A r \in Requests :
        /\ (pc[r] = "lookup" /\ pc'[r] # "lookup")
              => /\ Len(ssmLog'[r]) = 1
                 /\ pc'[r] = "compare"
                       => /\ ssmParam.exists
                          /\ expected_token'[r] = ssmParam.value
                          /\ ssmLog'[r][1].value = ssmParam.value
        /\ (pc[r] = "compare" /\ pc'[r] # "compare")
              => /\ Get(Payload(r), "token") # SecretOf(r)
                       => pc'[r] = "done" /\ response'[r] = InvalidToken
                 /\ Get(Payload(r), "token") = SecretOf(r)
                       => pc'[r] = "validate" /\ response'[r] = NoResp
        /\ pc'[r] \in {"compare", "validate", "enqueue"}
              => Len(ssmLog'[r]) = 1 /\ expected_token'[r] = ssmLog'[r][1].value
      ]_vars

\* after the secret changed, the request carrying the old secret got 403 and
\* the request carrying the new one was accepted
C16_Witness ==
    \E r, q \in Requests :
        /\ rotations = 1 /\ ssmParam = Stored(Str(TokUpper))
        /\ Done(r) /\ response[r] = InvalidToken
        /\ Get(Payload(r), "token") = Str(Tok) /\ SecretOf(r) = Str(TokUpper)
        /\ Done(q) /\ response[q] = Accepted
        /\ Get(Payload(q), "token") = Str(TokUpper) /\ SecretOf(q) = Str(TokUpper)

====
